---- MODULE Spec2Model ----
(***************************************************************************)
(* Model of word/cut_word.py: PDFImageProcessor.  One coordinator thread   *)
(* runs process(); every submitted page runs _process_page on a worker of  *)
(* a ThreadPoolExecutor; the workers share processed_pages, guarded by     *)
(* progress_lock.  The caller may invoke process() again on the same       *)
(* object, which keeps processed_pages (it is only set in __init__).       *)
(***************************************************************************)
EXTENDS Integers, Sequences, FiniteSets

\* ---- bounds of the model ----
MaxPages == 3
MaxStart == 1
MaxWorkers == 2
MaxRuns == 4

\* ---- values ----
None == <<>>
Some(n) == <<n>>
PageIdx == 0..(MaxPages + 1)
NoHolder == -1

VARIABLES
  start_page,       \* self.start_page
  end_page,         \* self.end_page (None or an int)
  page_count,       \* pdf_document.page_count
  processed_pages,  \* self.processed_pages
  lock,             \* self.progress_lock: holder's page index or NoHolder
  cpc,              \* position of the thread that runs process()
  doc_open,         \* the fitz document handle is open
  eff_end,          \* local end_page of process()
  total_pages,      \* the count announced at the start (None before)
  next_page,        \* next value of range(self.start_page, end_page)
  futures,          \* the list futures: page index of each submission
  pc,               \* position of each page's _process_page
  tmp,              \* value loaded by `self.processed_pages += 1`
  collected,        \* futures already yielded by as_completed
  page_errors,      \* pages logged by _process_page's except clause
  coord_errors,     \* pages logged by process's except clause
  reports,          \* values printed by _update_progress, in order
  final,            \* value printed by the final summary (None before)
  outcome,          \* how each page of this run ended its steps
  signals,          \* calls of _update_progress by each page, this run
  calls,            \* calls of _update_progress since construction
  base,             \* processed_pages when this run started
  run,              \* calls of process() so far
  closes,           \* releases of the document handle in this run
  work              \* the image work: a record of the fields below

\* the variables of the batch run
batch == <<start_page, end_page, page_count, processed_pages, lock, cpc,
           doc_open, eff_end, total_pages, next_page, futures, pc, tmp,
           collected, page_errors, coord_errors, reports, final, outcome,
           signals, calls, base, run, closes>>

\* ---- the fields of the image work, which the batch actions leave alone ----

\* self.target_width, a rational <<numerator, denominator>>
target_width == work.target_width

\* _process_cuts: image.shape[1]
width == work.width

\* _process_cuts: the returned list, each slice <<lo, hi>>
cuts == work.cuts

\* _process_cuts: "call" before, "done" after
cuts_pc == work.cuts_pc

\* _process_contours: bounding rectangles <<x, y, w, h>>
contours == work.contours

\* _process_contours: the returned list
valid_contours == work.valid_contours

\* _process_contours: "call" before, "done" after
contours_pc == work.contours_pc

\* per page: None, or the rectangles its rendered image holds
render == work.render

\* per page: position in lines 75-88 of _process_page
ppc == work.ppc

\* per page: the list the region loop enumerates
regions == work.regions

\* per page: enumerate index of the region loop
idx == work.idx

\* per page: the cuts of the current region
pcuts == work.pcuts

\* per page: enumerate index of the cut loop
cut_idx == work.cut_idx

\* per page: the local counter i
tile_i == work.tile_i

\* the files under output_dir: <<name, content>>
files == work.files

vars == <<batch, work>>

config == <<start_page, end_page, page_count>>

coord == <<cpc, doc_open, eff_end, total_pages, next_page, futures,
           collected, coord_errors, final, base, run, closes>>

\* ---- helpers ----
Min(a, b) == IF a <= b THEN a ELSE b

Range(s) == {s[i] : i \in 1..Len(s)}

\* Python truthiness of self.end_page: None and 0 are falsy
Truthy(e) == e # None /\ e[1] # 0

\* line 98: min(self.end_page or page_count, page_count)
EffectiveEnd(e, n) == Min(IF Truthy(e) THEN e[1] ELSE n, n)

\* future.done(): the call returned or raised
Done(p) == pc[p] \in {"returned", "raised"}

\* the call occupies a worker
Running(p) == pc[p] \notin {"none", "pending", "returned", "raised"}

\* the page is inside _update_progress
InUpdate(p) == pc[p] \in {"update", "loaded", "stored", "print"}

\* steps 1-4 of _process_page, any of which may raise
Steps == {"render", "tile"}

\* line 12: the default target_width, 516.6
DefaultWidth == <<5166, 10>>

\* no image work is modelled: the object as constructed, no call of
\* _process_cuts, _process_contours or _process_page
NoWork ==
  [target_width |-> DefaultWidth,
   width |-> 0, cuts |-> <<>>, cuts_pc |-> "off",
   contours |-> <<>>, valid_contours |-> <<>>, contours_pc |-> "off",
   render |-> <<>>, ppc |-> <<>>, regions |-> <<>>, idx |-> <<>>,
   pcuts |-> <<>>, cut_idx |-> <<>>, tile_i |-> <<>>, files |-> {}]

\* lines 22-23 and the locals of process() before its first call
Fresh ==
  /\ processed_pages = 0
  /\ lock = NoHolder
  /\ cpc = "idle"
  /\ doc_open = FALSE
  /\ eff_end = 0
  /\ total_pages = None
  /\ next_page = 0
  /\ futures = <<>>
  /\ pc = [p \in PageIdx |-> "none"]
  /\ tmp = [p \in PageIdx |-> 0]
  /\ collected = {}
  /\ page_errors = {}
  /\ coord_errors = {}
  /\ reports = <<>>
  /\ final = None
  /\ outcome = [p \in PageIdx |-> "none"]
  /\ signals = [p \in PageIdx |-> 0]
  /\ calls = 0
  /\ base = 0
  /\ run = 0
  /\ closes = 0

\* the constructor's defaults, lines 11-12, for the specifications of the
\* image work, where process() is not called
Defaults == start_page = 1 /\ end_page = None /\ page_count = 1

\* ---- initial state: a freshly constructed PDFImageProcessor ----
Init ==
  /\ start_page \in 0..MaxStart
  /\ end_page \in {None} \cup {Some(n) : n \in 0..(MaxPages + 1)}
  /\ page_count \in 1..MaxPages
  /\ work = NoWork
  /\ closes = 0
  /\ processed_pages = 0
  /\ lock = NoHolder
  /\ cpc = "idle"
  /\ doc_open = FALSE
  /\ eff_end = 0
  /\ total_pages = None
  /\ next_page = 0
  /\ futures = <<>>
  /\ pc = [p \in PageIdx |-> "none"]
  /\ tmp = [p \in PageIdx |-> 0]
  /\ collected = {}
  /\ page_errors = {}
  /\ coord_errors = {}
  /\ reports = <<>>
  /\ final = None
  /\ outcome = [p \in PageIdx |-> "none"]
  /\ signals = [p \in PageIdx |-> 0]
  /\ calls = 0
  /\ base = 0
  /\ run = 0

\* ---- process(), lines 94-101: open, compute the range, announce ----
ProcessBegin ==
  /\ cpc \in {"idle", "done"}
  /\ run < MaxRuns
  /\ run' = run + 1
  /\ doc_open' = TRUE
  /\ closes' = 0
  /\ eff_end' = EffectiveEnd(end_page, page_count)
  /\ total_pages' = Some(eff_end' - start_page)
  /\ next_page' = start_page
  /\ cpc' = IF start_page < eff_end' THEN "submitting" ELSE "collecting"
  /\ futures' = <<>>
  /\ collected' = {}
  /\ coord_errors' = {}
  /\ page_errors' = {}
  /\ final' = None
  /\ base' = processed_pages
  /\ pc' = [p \in PageIdx |-> "none"]
  /\ outcome' = [p \in PageIdx |-> "none"]
  /\ signals' = [p \in PageIdx |-> 0]
  /\ UNCHANGED <<config, work, processed_pages, lock, tmp, reports, calls>>

\* lines 104-107: executor.submit for the next page of the range
Submit ==
  /\ cpc = "submitting"
  /\ next_page < eff_end
  /\ futures' = Append(futures, next_page)
  /\ pc' = [pc EXCEPT ![next_page] = "pending"]
  /\ next_page' = next_page + 1
  /\ cpc' = IF next_page' < eff_end THEN "submitting" ELSE "collecting"
  /\ UNCHANGED <<config, work, processed_pages, lock, doc_open, eff_end, total_pages,
                 tmp, collected, page_errors, coord_errors, reports, final,
                 outcome, signals, calls, base, run, closes>>

\* a pool worker takes the oldest queued call
Start(p) ==
  /\ pc[p] = "pending"
  /\ \A q \in Range(futures) : q < p => pc[q] # "pending"
  /\ Cardinality({q \in PageIdx : Running(q)}) < MaxWorkers
  /\ pc' = [pc EXCEPT ![p] = "render"]
  /\ UNCHANGED <<config, work, coord, processed_pages, lock, tmp, page_errors,
                 reports, outcome, signals, calls>>

\* lines 67-77: output directory, load_page, get_pixmap, save, cv2.imread;
\* a None image returns at once
Render(p) ==
  /\ pc[p] = "render"
  /\ \E readable \in BOOLEAN :
       IF readable
         THEN /\ pc' = [pc EXCEPT ![p] = "tile"]
              /\ UNCHANGED outcome
         ELSE /\ pc' = [pc EXCEPT ![p] = "returned"]
              /\ outcome' = [outcome EXCEPT ![p] = "skip"]
  /\ UNCHANGED <<config, work, coord, processed_pages, lock, tmp, page_errors,
                 reports, signals, calls>>

TileNoSignal(p) ==
  /\ pc[p] = "tile"
  /\ pc' = [pc EXCEPT ![p] = "returned"]
  /\ outcome' = [outcome EXCEPT ![p] = "ok"]
  /\ UNCHANGED <<config, work, coord, processed_pages, lock, tmp, page_errors,
                 reports, signals, calls>>

\* lines 79-88: contours, crops, cuts and writes, then the call of
\* _update_progress
Tile(p) ==
  /\ pc[p] = "tile"
  /\ pc' = [pc EXCEPT ![p] = "update"]
  /\ outcome' = [outcome EXCEPT ![p] = "ok"]
  /\ signals' = [signals EXCEPT ![p] = @ + 1]
  /\ calls' = calls + 1
  /\ UNCHANGED <<config, work, coord, processed_pages, lock, tmp, page_errors, reports>>

RaiseCounted(p) ==
  /\ pc[p] \in Steps
  /\ outcome' = [outcome EXCEPT ![p] = "raise"]
  /\ page_errors' = page_errors \cup {p}
  /\ pc' = [pc EXCEPT ![p] = "update"]
  /\ signals' = [signals EXCEPT ![p] = @ + 1]
  /\ calls' = calls + 1
  /\ UNCHANGED <<config, work, coord, processed_pages, lock, tmp, reports>>

\* lines 66-92: a step of the try body raises; the except clause logs the
\* page index and re-raises into the future
Raise(p) ==
  /\ pc[p] \in Steps
  /\ outcome' = [outcome EXCEPT ![p] = "raise"]
  /\ page_errors' = page_errors \cup {p}
  /\ pc' = [pc EXCEPT ![p] = "raised"]
  /\ UNCHANGED <<config, work, coord, processed_pages, lock, tmp, reports, signals,
                 calls>>

AcquireNoLock(p) ==
  /\ pc[p] = "update"
  /\ lock' = p
  /\ tmp' = [tmp EXCEPT ![p] = processed_pages]
  /\ pc' = [pc EXCEPT ![p] = "loaded"]
  /\ UNCHANGED <<config, work, coord, processed_pages, page_errors, reports,
                 outcome, signals, calls>>

\* lines 59-60: enter progress_lock and read self.processed_pages
Acquire(p) ==
  /\ pc[p] = "update"
  /\ lock = NoHolder
  /\ lock' = p
  /\ tmp' = [tmp EXCEPT ![p] = processed_pages]
  /\ pc' = [pc EXCEPT ![p] = "loaded"]
  /\ UNCHANGED <<config, work, coord, processed_pages, page_errors, reports,
                 outcome, signals, calls>>

\* line 60, second half: write the sum back
Store(p) ==
  /\ pc[p] = "loaded"
  /\ processed_pages' = tmp[p] + 1
  /\ tmp' = [tmp EXCEPT ![p] = 0]
  /\ pc' = [pc EXCEPT ![p] = "stored"]
  /\ UNCHANGED <<config, work, coord, lock, page_errors, reports, outcome,
                 signals, calls>>

TestBeforeIncrement(p) ==
  /\ pc[p] = "stored"
  /\ IF (processed_pages - 1) % 10 = 0
       THEN /\ pc' = [pc EXCEPT ![p] = "print"]
            /\ UNCHANGED lock
       ELSE /\ pc' = [pc EXCEPT ![p] = "returned"]
            /\ lock' = IF lock = p THEN NoHolder ELSE lock
  /\ UNCHANGED <<config, work, coord, processed_pages, tmp, page_errors,
                 reports, outcome, signals, calls>>

TestThenRelease(p) ==
  /\ pc[p] = "stored"
  /\ pc' = [pc EXCEPT ![p] = IF processed_pages % 10 = 0 THEN "print" ELSE "returned"]
  /\ lock' = IF lock = p THEN NoHolder ELSE lock
  /\ UNCHANGED <<config, work, coord, processed_pages, tmp, page_errors,
                 reports, outcome, signals, calls>>

\* line 61: if self.processed_pages % 10 == 0; when it is not, the lock is
\* released and the call returns
Test(p) ==
  /\ pc[p] = "stored"
  /\ IF processed_pages % 10 = 0
       THEN /\ pc' = [pc EXCEPT ![p] = "print"]
            /\ UNCHANGED lock
       ELSE /\ pc' = [pc EXCEPT ![p] = "returned"]
            /\ lock' = IF lock = p THEN NoHolder ELSE lock
  /\ UNCHANGED <<config, work, coord, processed_pages, tmp, page_errors,
                 reports, outcome, signals, calls>>

\* line 62: print the counter; the lock is released and the call returns
PrintProgress(p) ==
  /\ pc[p] = "print"
  /\ reports' = Append(reports, processed_pages)
  /\ lock' = IF lock = p THEN NoHolder ELSE lock
  /\ pc' = [pc EXCEPT ![p] = "returned"]
  /\ UNCHANGED <<config, work, coord, processed_pages, tmp, page_errors,
                 outcome, signals, calls>>

CollectNoCatch(p) ==
  /\ cpc = "collecting"
  /\ p \in Range(futures) \ collected
  /\ Done(p)
  /\ collected' = collected \cup {p}
  /\ cpc' = IF pc[p] = "raised" THEN "aborted" ELSE cpc
  /\ UNCHANGED <<config, work, processed_pages, lock, doc_open, eff_end,
                 total_pages, next_page, futures, pc, tmp, page_errors,
                 coord_errors, reports, final, outcome, signals, calls, base, run, closes>>

\* lines 110-114: as_completed yields a finished future; its exception is
\* caught and logged
Collect(p) ==
  /\ cpc = "collecting"
  /\ p \in Range(futures) \ collected
  /\ Done(p)
  /\ collected' = collected \cup {p}
  /\ coord_errors' = IF pc[p] = "raised" THEN coord_errors \cup {p} ELSE coord_errors
  /\ UNCHANGED <<config, work, processed_pages, lock, cpc, doc_open, eff_end,
                 total_pages, next_page, futures, pc, tmp, page_errors,
                 reports, final, outcome, signals, calls, base, run, closes>>

ExitExecutorNoWait ==
  /\ cpc = "collecting"
  /\ cpc' = "closing"
  /\ UNCHANGED <<config, work, processed_pages, lock, doc_open, eff_end, total_pages,
                 next_page, futures, pc, tmp, collected, page_errors,
                 coord_errors, reports, final, outcome, signals, calls, base, run, closes>>

\* as_completed is exhausted; line 103's with-block exits (shutdown waits)
ExitExecutor ==
  /\ cpc = "collecting"
  /\ collected = Range(futures)
  /\ \A p \in Range(futures) : Done(p)
  /\ cpc' = "closing"
  /\ UNCHANGED <<config, work, processed_pages, lock, doc_open, eff_end, total_pages,
                 next_page, futures, pc, tmp, collected, page_errors,
                 coord_errors, reports, final, outcome, signals, calls, base, run, closes>>

CloseDocumentLeftOpen ==
  /\ cpc = "closing"
  /\ cpc' = "closed"
  /\ UNCHANGED <<config, work, processed_pages, lock, doc_open, eff_end, total_pages,
                 next_page, futures, pc, tmp, collected, page_errors,
                 coord_errors, reports, final, outcome, signals, calls, base, run, closes>>

\* line 97's with-block exits: the document is closed
CloseDocument ==
  /\ cpc = "closing"
  /\ doc_open' = FALSE
  /\ closes' = closes + 1
  /\ cpc' = "closed"
  /\ UNCHANGED <<config, work, processed_pages, lock, eff_end, total_pages,
                 next_page, futures, pc, tmp, collected, page_errors,
                 coord_errors, reports, final, outcome, signals, calls, base, run>>

\* line 116: the final summary
PrintFinal ==
  /\ cpc = "closed"
  /\ final' = Some(processed_pages)
  /\ cpc' = "done"
  /\ UNCHANGED <<config, work, processed_pages, lock, doc_open, eff_end, total_pages,
                 next_page, futures, pc, tmp, collected, page_errors,
                 coord_errors, reports, outcome, signals, calls, base, run, closes>>

PageStep(p) ==
  \/ Start(p)
  \/ Render(p)
  \/ Tile(p)
  \/ Raise(p)
  \/ Acquire(p)
  \/ Store(p)
  \/ Test(p)
  \/ PrintProgress(p)

RunStep ==
  \/ Submit
  \/ \E p \in PageIdx : PageStep(p)
  \/ \E p \in PageIdx : Collect(p)
  \/ ExitExecutor
  \/ CloseDocument
  \/ PrintFinal

Next == ProcessBegin \/ RunStep

Spec == Init /\ [][Next]_vars

\* the scheduler runs every thread that can take a step
FairSpec == Spec /\ WF_vars(RunStep)

\* ---- an object that has run process() before ----

\* counts an object has reached in earlier runs, just below a report
EarlierCounts == {8, 18}

\* the pages a run submits under the configuration
Submitted == {p \in PageIdx : start_page <= p /\ p < EffectiveEnd(end_page, page_count)}

\* the state process() leaves behind (lines 94-116) when all its pages were
\* counted, on an object whose earlier runs brought the counter to c in all
ReusedInit ==
  /\ start_page \in 0..MaxStart
  /\ end_page \in {None} \cup {Some(n) : n \in 0..(MaxPages + 1)}
  /\ page_count \in 1..MaxPages
  /\ work = NoWork
  /\ processed_pages \in IF Submitted = {} THEN {0} ELSE EarlierCounts
  /\ calls = processed_pages
  /\ reports = [k \in 1..(processed_pages \div 10) |-> 10 * k]
  /\ lock = NoHolder
  /\ tmp = [p \in PageIdx |-> 0]
  /\ cpc = "done"
  /\ doc_open = FALSE
  /\ closes = 1
  /\ eff_end = EffectiveEnd(end_page, page_count)
  /\ total_pages = Some(eff_end - start_page)
  /\ next_page = IF Submitted = {} THEN start_page ELSE eff_end
  /\ futures = [k \in 1..Cardinality(Submitted) |-> start_page + k - 1]
  /\ pc = [p \in PageIdx |-> IF p \in Submitted THEN "returned" ELSE "none"]
  /\ outcome = [p \in PageIdx |-> IF p \in Submitted THEN "ok" ELSE "none"]
  /\ signals = [p \in PageIdx |-> IF p \in Submitted THEN 1 ELSE 0]
  /\ collected = Submitted
  /\ page_errors = {}
  /\ coord_errors = {}
  /\ final = Some(processed_pages)
  /\ base = processed_pages - Cardinality(Submitted)
  /\ run = MaxRuns - 1

ReusedSpec == ReusedInit /\ [][Next]_vars

\* ---- _process_cuts, lines 31-43 ----
MaxWidth == 12
MaxTargetNum == 7

\* small target widths: halves and whole numbers
Targets == {<<n, d>> : n \in 1..MaxTargetNum, d \in {1, 2}}

\* image widths of the scale of the default target width
PageWidths == {201, 258, 259, 516, 517, 775, 1034, 1808}

\* the calls of _process_cuts that are examined: <<width, target width>>
CutInputs ==
  ((0..MaxWidth) \X Targets) \cup (((0..MaxWidth) \cup PageWidths) \X {DefaultWidth})

Max(a, b) == IF a >= b THEN a ELSE b

\* int() of the rational n/d: truncation toward zero
Trunc(n, d) == IF n >= 0 THEN n \div d ELSE -((-n) \div d)

\* np.ceil of the rational n/d, n >= 0
Ceil(n, d) == (n + d - 1) \div d

\* a slice bound k of an axis of length W, as Python clamps it
Clamp(k, W) == IF k < 0 THEN Max(W + k, 0) ELSE Min(k, W)

\* image[:, a:b] of an image of width W: the columns [lo, hi)
Slice(a, b, W) == <<Clamp(a, W), Max(Clamp(a, W), Clamp(b, W))>>

\* line 34: int(np.ceil(width / self.target_width))
NumCuts(W, T) == Ceil(W * T[2], T[1])

\* line 36: int(i * self.target_width)
SliceStart(i, T) == Trunc(i * T[1], T[2])

SliceEndInclusive(i, W, T) ==
  (IF (i + 1) * T[1] <= W * T[2] THEN Trunc((i + 1) * T[1], T[2]) ELSE W) + 1

\* line 36: int(min((i + 1) * self.target_width, width))
SliceEnd(i, W, T) ==
  IF (i + 1) * T[1] <= W * T[2] THEN Trunc((i + 1) * T[1], T[2]) ELSE W

LastStartRounded(W, T) == Ceil(Max((NumCuts(W, T) - 1) * T[1], 0), T[2])

\* line 39: int((num_cuts - 1) * self.target_width)
LastStart(W, T) == Trunc((NumCuts(W, T) - 1) * T[1], T[2])

\* line 40: width - last_start >= self.target_width * 0.5
KeepLast(W, T) == (W - LastStart(W, T)) * 2 * T[2] >= T[1]

\* lines 36-37: the list comprehension over range(num_cuts - 1)
LeadingCuts(W, T) ==
  [k \in 1..(NumCuts(W, T) - 1) |->
     Slice(SliceStart(k - 1, T), SliceEnd(k - 1, W, T), W)]

\* lines 33-43: the returned list
ProcessCuts(W, T) ==
  IF KeepLast(W, T)
    THEN Append(LeadingCuts(W, T), Slice(LastStart(W, T), W, W))
    ELSE LeadingCuts(W, T)

CutsInit ==
  /\ Defaults
  /\ Fresh
  /\ \E input \in CutInputs :
       work = [NoWork EXCEPT !.width = input[1], !.target_width = input[2],
                             !.cuts_pc = "call"]

\* one call of _process_cuts
CallProcessCuts ==
  /\ cuts_pc = "call"
  /\ work' = [work EXCEPT !.cuts = ProcessCuts(width, target_width),
                          !.cuts_pc = "done"]
  /\ UNCHANGED batch

CutsNext == CallProcessCuts

CutsSpec == CutsInit /\ [][CutsNext]_vars

\* ---- _process_contours, lines 45-55 ----
MaxRects == 3
MaxY == 1

\* lines 20-21
MinContourWidth == 200
MinContourHeight == 200

\* bounding rectangles <<x, y, w, h>> with sizes at and just above the minimum
Rects ==
  {<<0, y, w, h>> : y \in 0..MaxY,
                    w \in MinContourWidth..(MinContourWidth + 2),
                    h \in MinContourHeight..(MinContourHeight + 1)}

\* the lists of bounding rectangles of the contours found at line 49
RectLists == UNION {[1..n -> Rects] : n \in 0..MaxRects}

ValidInclusive(r) == r[3] >= MinContourWidth /\ r[4] >= MinContourHeight

\* lines 52-53: the condition of the comprehension
Valid(r) == r[3] > MinContourWidth /\ r[4] > MinContourHeight

\* line 55: one insertion of the stable sort, key x[1]
RECURSIVE InsertByY(_, _)
InsertByY(r, s) ==
  IF s = <<>> \/ r[2] <= Head(s)[2]
    THEN <<r>> \o s
    ELSE <<Head(s)>> \o InsertByY(r, Tail(s))

\* line 55: sorted(valid_contours, key=lambda x: x[1]), a stable sort
RECURSIVE SortedByY(_)
SortedByY(s) == IF s = <<>> THEN <<>> ELSE InsertByY(Head(s), SortedByY(Tail(s)))

\* lines 51-55: the returned list
ProcessContours(rs) == SortedByY(SelectSeq(rs, Valid))

ContoursInit ==
  /\ Defaults
  /\ Fresh
  /\ \E rs \in RectLists :
       work = [NoWork EXCEPT !.contours = rs, !.contours_pc = "call"]

\* one call of _process_contours, from the contours found to the list returned
CallProcessContours ==
  /\ contours_pc = "call"
  /\ work' = [work EXCEPT !.valid_contours = ProcessContours(contours),
                          !.contours_pc = "done"]
  /\ UNCHANGED batch

ContoursNext == CallProcessContours

ContoursSpec == ContoursInit /\ [][ContoursNext]_vars

\* ---- the region and cut loops of _process_page, lines 75-88 ----
MaxPipelines == 2

\* the pages whose pipelines run side by side: range(1, page_count)
Pipelines == 1..MaxPipelines

\* what cv2.imread returns for a page: None, or an image, given by the
\* bounding rectangles of the contours it holds
Renders ==
  { None,
    Some(<<>>),
    Some(<< <<0, 0, 150, 300>> >>),
    Some(<< <<0, 0, 201, 201>>, <<7, 300, 517, 201>> >>),
    Some(<< <<0, 300, 1034, 201>>, <<10, 0, 775, 201>> >>) }

\* lines 84-85: word_list_{page_num}_{idx + 1}_cut_{i}.png in Word_List_{page_num}
TileName(page_num, region_idx, i) == <<page_num, region_idx + 1, i>>

\* lines 81 and 83: the columns c of image[y:y+h, x:x+w], in page coordinates
TileContent(r, c) == <<r[1] + c[1], r[1] + c[2], r[2], r[2] + r[4]>>

\* cv2.imwrite: the file of that name now holds the content
Written(fs, name, content) == {f \in fs : f[1] # name} \cup {<<name, content>>}

PageInit ==
  /\ start_page = 1
  /\ end_page = None
  /\ page_count = MaxPipelines + 1
  /\ Fresh
  /\ \E images \in [Pipelines -> Renders] :
       work = [NoWork EXCEPT !.render = images,
                             !.ppc = [p \in Pipelines |-> "imread"],
                             !.regions = [p \in Pipelines |-> <<>>],
                             !.idx = [p \in Pipelines |-> 0],
                             !.pcuts = [p \in Pipelines |-> <<>>],
                             !.cut_idx = [p \in Pipelines |-> 0],
                             !.tile_i = [p \in Pipelines |-> 0]]

\* lines 75-80: the image is read; None ends the page, otherwise i = 1 and
\* the region loop starts over the list _process_contours returns
ReadImage(p) ==
  /\ ppc[p] = "imread"
  /\ work' = IF render[p] = None
               THEN [work EXCEPT !.ppc[p] = "skipped"]
               ELSE [work EXCEPT !.ppc[p] = "region",
                                 !.regions[p] = ProcessContours(render[p][1]),
                                 !.tile_i[p] = 1]
  /\ UNCHANGED batch

\* lines 80-83: the next region is cropped and cut
EnterRegion(p) ==
  /\ ppc[p] = "region"
  /\ idx[p] < Len(regions[p])
  /\ work' = [work EXCEPT
                !.pcuts[p] = ProcessCuts(regions[p][idx[p] + 1][3], target_width),
                !.cut_idx[p] = 0,
                !.ppc[p] = "cut"]
  /\ UNCHANGED batch

WriteTileSharedCounter(p) ==
  /\ ppc[p] = "cut"
  /\ cut_idx[p] < Len(pcuts[p])
  /\ work' = [work EXCEPT
                !.files = Written(files,
                                  TileName(p, idx[p], Cardinality(files) + 1),
                                  TileContent(regions[p][idx[p] + 1],
                                              pcuts[p][cut_idx[p] + 1])),
                !.tile_i[p] = tile_i[p] + 1,
                !.cut_idx[p] = cut_idx[p] + 1]
  /\ UNCHANGED batch

\* lines 83-86: the next cut is written and i grows by one
WriteTile(p) ==
  /\ ppc[p] = "cut"
  /\ cut_idx[p] < Len(pcuts[p])
  /\ work' = [work EXCEPT
                !.files = Written(files,
                                  TileName(p, idx[p], tile_i[p]),
                                  TileContent(regions[p][idx[p] + 1],
                                              pcuts[p][cut_idx[p] + 1])),
                !.tile_i[p] = tile_i[p] + 1,
                !.cut_idx[p] = cut_idx[p] + 1]
  /\ UNCHANGED batch

NextRegionResetCounter(p) ==
  /\ ppc[p] = "cut"
  /\ cut_idx[p] = Len(pcuts[p])
  /\ work' = [work EXCEPT !.idx[p] = idx[p] + 1,
                          !.tile_i[p] = 1,
                          !.ppc[p] = "region"]
  /\ UNCHANGED batch

\* line 83: the cuts of the region are exhausted, the region loop goes on
NextRegion(p) ==
  /\ ppc[p] = "cut"
  /\ cut_idx[p] = Len(pcuts[p])
  /\ work' = [work EXCEPT !.idx[p] = idx[p] + 1, !.ppc[p] = "region"]
  /\ UNCHANGED batch

\* lines 80 and 88, 57-62: the regions are exhausted and _update_progress
\* runs under progress_lock
FinishPage(p) ==
  /\ ppc[p] = "region"
  /\ idx[p] = Len(regions[p])
  /\ lock = NoHolder
  /\ processed_pages' = processed_pages + 1
  /\ reports' = IF (processed_pages + 1) % 10 = 0
                  THEN Append(reports, processed_pages + 1)
                  ELSE reports
  /\ signals' = [signals EXCEPT ![p] = signals[p] + 1]
  /\ calls' = calls + 1
  /\ work' = [work EXCEPT !.ppc[p] = "done"]
  /\ UNCHANGED <<config, coord, lock, pc, tmp, page_errors, outcome>>

\* lines 90-92: a step of the loops raises; the page is logged and ends
PageRaise(p) ==
  /\ ppc[p] \in {"imread", "region", "cut"}
  /\ work' = [work EXCEPT !.ppc[p] = "raised"]
  /\ page_errors' = page_errors \cup {p}
  /\ UNCHANGED <<config, coord, processed_pages, lock, pc, tmp, reports, outcome,
                 signals, calls>>

PageNext ==
  \E p \in Pipelines :
    \/ ReadImage(p)
    \/ EnterRegion(p)
    \/ WriteTile(p)
    \/ NextRegion(p)
    \/ FinishPage(p)
    \/ PageRaise(p)

PageSpec == PageInit /\ [][PageNext]_vars

\* ---- the claims ----

\* no call of _update_progress is in progress
Quiescent == \A p \in PageIdx : ~InUpdate(p)

\* the pages of this run whose steps ended in the given way
Ended(how) == {p \in Range(futures) : outcome[p] = how}

\* the coordinator has left the worker pool's with-block
PoolExited == cpc \in {"closing", "closed", "done"}

\* C1: after N calls of _update_progress, in any interleaving, the counter
\* is N once every call has returned; while calls are in progress the
\* counter lacks exactly those that have not yet written their increment.
C1_NoLostUpdate ==
  /\ Quiescent => processed_pages = calls
  /\ processed_pages
       + Cardinality({p \in PageIdx : pc[p] \in {"update", "loaded"}}) = calls

C1_Witness ==
  /\ Quiescent
  /\ cpc = "collecting"
  /\ Cardinality(Ended("ok")) >= 2
  /\ processed_pages = calls
  /\ calls >= 5

\* C2: the values reported are exactly 10, 20, ... in this order, one
\* report per multiple of 10 reached; after N completed calls there are
\* floor(N/10) reports.
C2_ReportEveryTenth ==
  /\ \A i \in 1..Len(reports) : reports[i] = 10 * i
  /\ Quiescent => Len(reports) = calls \div 10

C2_Witness ==
  /\ Quiescent
  /\ calls > 10
  /\ Len(reports) = 1

\* C3 (as claimed): at the end of a run in which some pages raised, every
\* other page has returned and has been counted in processed_pages.
C3_Claim ==
  (cpc = "done" /\ Ended("raise") # {}) =>
    /\ \A p \in Range(futures) \ Ended("raise") :
         pc[p] = "returned" /\ signals[p] = 1
    /\ processed_pages - base = Cardinality(Range(futures) \ Ended("raise"))

\* C4: a page one of whose steps raised is logged with its index, ends as
\* a raised future that the coordinator receives, and never calls
\* _update_progress: the counter grows only by pages that did not raise.
C4_FailedNotCounted ==
  /\ \A p \in PageIdx :
       outcome[p] = "raise" =>
         /\ pc[p] = "raised"
         /\ p \in page_errors
         /\ signals[p] = 0
         /\ p \in collected => p \in coord_errors
  /\ processed_pages - base <= Cardinality(Range(futures) \ Ended("raise"))

C4_Witness ==
  /\ cpc = "done"
  /\ \E p \in Range(futures) : outcome[p] = "raise" /\ p \in coord_errors
  /\ processed_pages > base

\* C5 (as claimed): a page whose re-read image is None returns without
\* raising and has signalled the progress tracker exactly once.
C5_Claim ==
  \A p \in PageIdx :
    outcome[p] = "skip" => pc[p] = "returned" /\ signals[p] = 1

\* C6 (as claimed, counted per run and on runs without an unreadable
\* render): every submitted page, failed or not, has incremented the
\* counter once, so the run added the number of submitted pages.
C6_Claim ==
  (cpc = "done" /\ Ended("skip") = {}) =>
    /\ \A p \in Range(futures) : signals[p] = 1
    /\ processed_pages - base = Len(futures)

\* C6 (amended): a page calls _update_progress once if it ran to the end
\* of its tiling step and never if it raised or returned early; at the
\* end of a run the counter has grown by the number of such pages.
C6_CountsCompletedTiling ==
  /\ \A p \in PageIdx : signals[p] = IF outcome[p] = "ok" THEN 1 ELSE 0
  /\ PoolExited => processed_pages - base = Cardinality(Ended("ok"))

C6_Witness ==
  /\ cpc = "done"
  /\ Ended("ok") # {}
  /\ Ended("raise") # {}
  /\ Ended("skip") # {}
  /\ processed_pages - base = 1

\* the effective end the claim states: min(configured end, page count)
ClaimedEnd == Min(IF end_page = None THEN page_count ELSE end_page[1], page_count)

\* C7 (as claimed): once submission is over, futures holds each index of
\* [start_page, min(configured end, page count)) exactly once and nothing
\* else, for every configured end including 0.
C7_Claim ==
  cpc \in {"collecting", "closing", "closed", "done"} =>
    /\ Range(futures) = {p \in PageIdx : start_page <= p /\ p < ClaimedEnd}
    /\ Len(futures) = Cardinality(Range(futures))

\* C8: the final summary is printed only when every submitted page has
\* returned or raised, and it shows the counter's value.
C8_FinalAfterAll ==
  /\ PoolExited => \A p \in Range(futures) : pc[p] \in {"returned", "raised"}
  /\ final # None =>
       /\ \A p \in PageIdx : pc[p] \in {"none", "returned", "raised"}
       /\ final = Some(processed_pages)

C8_Witness ==
  /\ final # None
  /\ Len(futures) >= 2
  /\ Ended("raise") # {}
  /\ Ended("ok") # {}

\* C9: under fair scheduling every run of process() that has begun reaches
\* its final summary, whichever pages fail.
C9_Terminates == (cpc \notin {"idle", "done"}) ~> (cpc = "done" /\ final # None)

C9_Witness ==
  /\ cpc = "done"
  /\ final # None
  /\ Cardinality(Ended("raise")) >= 2

\* C10 (as claimed): when no page of the run raised, the final summary
\* shows effective_end - start_page, the count announced at the start.
C10_Claim ==
  (cpc = "done" /\ Ended("raise") = {}) =>
    /\ final = Some(eff_end - start_page)
    /\ final = total_pages


\* ---- the claims about _process_cuts ----

\* ceil(W / T) for the rational T
CeilWT == (width * target_width[2] + target_width[1] - 1) \div target_width[1]

\* the pixel width of a slice
WidthOf(c) == c[2] - c[1]

\* the sum of the pixel widths of the emitted slices
RECURSIVE TotalWidth(_)
TotalWidth(cs) == IF cs = <<>> THEN 0 ELSE WidthOf(Head(cs)) + TotalWidth(Tail(cs))

\* C11 (as claimed, on widths of at least 1): ceil(W/T) - 1 tiles and one
\* more iff W - (ceil(W/T) - 1) * T >= 0.5 * T; total width at most W.
C11_Claim ==
  (cuts_pc = "done" /\ width >= 1) =>
    /\ Len(cuts) = (CeilWT - 1)
         + (IF 2 * (width * target_width[2] - (CeilWT - 1) * target_width[1])
                 >= target_width[1]
              THEN 1 ELSE 0)
    /\ TotalWidth(cuts) <= width

\* the start of the final tile: (ceil(W/T) - 1) * T truncated toward zero
TruncatedStart ==
  IF CeilWT >= 1
    THEN ((CeilWT - 1) * target_width[1]) \div target_width[2]
    ELSE -(target_width[1] \div target_width[2])

\* the final tile is kept: W - int((ceil(W/T) - 1) * T) >= 0.5 * T
FinalKept == 2 * target_width[2] * (width - TruncatedStart) >= target_width[1]

\* C11 (amended): max(ceil(W/T) - 1, 0) leading tiles with bounds
\* [int(i*T), int((i+1)*T)), then a final tile up to W that is present iff
\* W - int((ceil(W/T) - 1) * T) >= 0.5 * T; the tiles are contiguous from
\* column 0, cover at most W, and without the final tile the columns from
\* int((ceil(W/T) - 1) * T) on are dropped.
C11_TruncatedFinalRule ==
  cuts_pc = "done" =>
    LET lead == IF CeilWT >= 1 THEN CeilWT - 1 ELSE 0
    IN /\ Len(cuts) = lead + (IF FinalKept THEN 1 ELSE 0)
       /\ \A k \in 1..lead :
            /\ cuts[k][1] = ((k - 1) * target_width[1]) \div target_width[2]
            /\ cuts[k][2] = (k * target_width[1]) \div target_width[2]
       /\ FinalKept /\ width >= 1 => cuts[lead + 1] = <<TruncatedStart, width>>
       /\ TotalWidth(cuts) <= width
       /\ ~FinalKept => TotalWidth(cuts) = Max(TruncatedStart, 0)

C11_Witness ==
  /\ cuts_pc = "done"
  /\ target_width = <<3, 2>>
  /\ width = 5
  /\ cuts = << <<0, 1>>, <<1, 3>>, <<3, 4>>, <<4, 5>> >>

\* C12 (as claimed): a width 0 < W <= T gives exactly the tile [0, W).
C12_Claim ==
  (cuts_pc = "done" /\ width > 0 /\ width * target_width[2] <= target_width[1]) =>
    cuts = << <<0, width>> >>

\* C16 (as claimed): a zero-width image gives the empty list.
C16_Claim == (cuts_pc = "done" /\ width = 0) => cuts = <<>>

\* C17 (as claimed): no emitted tile is wider than T.
C17_Claim ==
  cuts_pc = "done" =>
    \A k \in 1..Len(cuts) : WidthOf(cuts[k]) * target_width[2] <= target_width[1]

\* C17 (amended): every emitted tile is narrower than T + 1 pixels, hence
\* at most T wide when T is a whole number.
C17_WidthBelowTargetPlusOne ==
  cuts_pc = "done" =>
    \A k \in 1..Len(cuts) :
      (WidthOf(cuts[k]) - 1) * target_width[2] < target_width[1]

C17_Witness ==
  /\ cuts_pc = "done"
  /\ target_width = DefaultWidth
  /\ width = 1034
  /\ \E k \in 1..Len(cuts) : WidthOf(cuts[k]) = 517

\* ---- the claims about _process_contours ----

\* the positions of the input rectangles that are strictly larger than both minima
KeptPositions ==
  {i \in 1..Len(contours) :
     contours[i][3] > MinContourWidth /\ contours[i][4] > MinContourHeight}

\* C13: the returned list holds exactly the rectangles with w > min width and
\* h > min height, in non-decreasing y, equal y in input order; an empty
\* input gives an empty output.
C13_FilterAndOrder ==
  contours_pc = "done" =>
    /\ Len(valid_contours) = Cardinality(KeptPositions)
    /\ \E f \in [1..Len(valid_contours) -> KeptPositions] :
         /\ \A k \in 1..Len(valid_contours) : valid_contours[k] = contours[f[k]]
         /\ \A k, l \in 1..Len(valid_contours) :
              k < l =>
                /\ valid_contours[k][2] <= valid_contours[l][2]
                /\ valid_contours[k][2] = valid_contours[l][2] => f[k] < f[l]
    /\ contours = <<>> => valid_contours = <<>>

C13_Witness ==
  /\ contours_pc = "done"
  /\ contours = << <<0, 1, 201, 201>>, <<0, 0, 200, 201>>,
                   <<0, 1, 202, 201>>  >>
  /\ valid_contours = << <<0, 1, 201, 201>>, <<0, 1, 202, 201>> >>

\* ---- the claims about the files a page writes ----

\* the files written under the names of page p
FilesOf(p) == {f \in files : f[1][1] = p}

\* C14: the tiles of a page carry the 1-based index of their region in
\* top-to-bottom order and the sequence numbers 1, 2, ... one per tile
\* written, growing across regions and left to right within a region; no
\* two tiles written share a file name.
C14_TileNumbering ==
  /\ \A f \in files : f[1][1] \in Pipelines
  /\ \A p \in Pipelines :
       /\ Cardinality(FilesOf(p)) = IF tile_i[p] = 0 THEN 0 ELSE tile_i[p] - 1
       /\ {f[1][3] : f \in FilesOf(p)} = 1..Cardinality(FilesOf(p))
       /\ \A k, l \in 1..Len(regions[p]) :
            k < l => regions[p][k][2] <= regions[p][l][2]
       /\ \A f \in FilesOf(p) :
            /\ f[1][2] \in 1..Len(regions[p])
            /\ f[2][3] = regions[p][f[1][2]][2]
            /\ f[2][4] = regions[p][f[1][2]][2] + regions[p][f[1][2]][4]
       /\ \A f, g \in FilesOf(p) :
            f[1][3] < g[1][3] =>
              /\ f[1][2] <= g[1][2]
              /\ f[1][2] = g[1][2] => f[2][1] < g[2][1]

C14_Witness ==
  /\ ppc[1] = "done"
  /\ {f[1] : f \in FilesOf(1)} = {<<1, 1, 1>>, <<1, 1, 2>>, <<1, 2, 3>>, <<1, 2, 4>>}
  /\ FilesOf(2) # {}

\* the number of tiles of the regions before region k
RECURSIVE TilesBefore(_, _, _)
TilesBefore(rs, k, T) ==
  IF k <= 1 THEN 0
  ELSE TilesBefore(rs, k - 1, T) + Len(ProcessCuts(rs[k - 1][3], T))

\* the files a page writes, as a function of its index, its render and the
\* configured target width only
ExpectedFiles(page_num, image, T) ==
  IF image = None THEN {}
  ELSE LET rs == ProcessContours(image[1])
       IN UNION {{<<TileName(page_num, k - 1, TilesBefore(rs, k, T) + c),
                    TileContent(rs[k], ProcessCuts(rs[k][3], T)[c])>> :
                    c \in 1..Len(ProcessCuts(rs[k][3], T))} :
                 k \in 1..Len(rs)}

C15_ReleasedOnceAfterDrain ==
  /\ closes \in {0, 1}
  /\ cpc \in {"submitting", "collecting", "closing"} => doc_open /\ closes = 0
  /\ cpc \in {"closed", "done"} => ~doc_open /\ closes = 1
  /\ \A p \in PageIdx : pc[p] \notin {"none", "returned", "raised"} => doc_open
  /\ (run > 0 /\ ~doc_open) =>
       \A k \in 1..Len(futures) : pc[futures[k]] \in {"returned", "raised"}

C15_Witness ==
  /\ cpc = "done"
  /\ closes = 1
  /\ ~doc_open
  /\ page_errors # {}
  /\ Len(futures) >= 2

\* C18 (as claimed): the progress counter is zero when a run of process starts.
C18_Claim == run >= 1 => base = 0

\* C19: the reports appear in strictly increasing order; a page about to
\* print holds progress_lock and the counter stands at a multiple of 10
\* above the last report; what is printed is the counter's value at that
\* moment.
C19_ReportedUnderLock ==
  /\ [](\A k, l \in 1..Len(reports) : k < l => reports[k] < reports[l])
  /\ [](\A p \in PageIdx :
          pc[p] = "print" =>
            /\ lock = p
            /\ processed_pages % 10 = 0
            /\ reports # <<>> => reports[Len(reports)] < processed_pages)
  /\ [][reports' # reports =>
          /\ reports' = Append(reports, processed_pages)
          /\ processed_pages' = processed_pages
          /\ processed_pages % 10 = 0]_vars

C19_Witness ==
  /\ reports = <<10>>
  /\ processed_pages = 20
  /\ \E p, q \in PageIdx : pc[p] = "print" /\ lock = p /\ pc[q] = "update"

====
